---- MODULE Spec2Model ----
(***************************************************************************)
(* Model of the ReviewSystem contract (src/frontend/web/src/App.tsx,       *)
(* lines 853-1005) and of the App component that is its client (lines      *)
(* 26-275 and the buttons that start its operations).                      *)
(*                                                                         *)
(* Every external function of the contract is one action that models the   *)
(* whole transaction: either all of its writes happen, or a require fails  *)
(* and the transaction reverts, leaving the contract storage untouched.    *)
(* The variable `last` records the outcome of the latest transaction (the  *)
(* revert reason, the events emitted, the value returned).                 *)
(***************************************************************************)
EXTENDS Integers, Sequences, FiniteSets, TLC

\* ------------------------------------------------------------------ bounds
MaxReviews == 2      \* reviews accepted per paper in the explored runs
MaxOps     == 2      \* client operations started in one browser session
MaxTime    == 2      \* largest block timestamp explored

\* --------------------------------------------------------------- constants
\* euint32 arithmetic is modulo 2^32.  A 32-bit value is kept as the pair
\* <<high half, low half>> of its 16-bit halves (value = high * 2^16 + low).
Half == 65536
U32(hi, lo) == <<hi, lo>>
addU32(a, b) ==
    LET lo == a[2] + b[2]
        hi == a[1] + b[1] + (lo \div Half)
    IN  <<hi % Half, lo % Half>>

PaperIds   == {"p1"}
\* msg.sender: the accounts that submit papers, and the account that reviews
Addresses  == {"alice", "bob"}
Reviewers  == {"carol"}
ZeroAddress == "0x0"
\* a string is modelled by the sequence of its characters, so that
\* bytes(s).length is Len(s)
Titles     == {<<>>, <<"A">>}
Comments   == {<<"c">>}
\* the clear scores 7 and 2^32 - 7 (their sum wraps around to 0)
Scores     == {U32(0, 7), U32(Half - 1, Half - 7)}

\* ------------------------------------------------- confidential substrate
\* A handle is <<kind, terms>>.  kind is "null" for the uninitialized handle
\* (bytes32(0)), "in" for a handle produced from an external input and "add"
\* for the result of homomorphic additions; terms lists, in fold order, the
\* input ciphertexts <<nonce, clear>> that were combined.
NullHandle == <<"null", <<>>>>
NullExt    == <<0, U32(0, 0)>>
\* the external inputs offered: the uninitialized one and one ciphertext
\* (nonce 1) per clear score
ExtInputs  == {NullExt} \cup ({1} \X Scores)
ContentInputs == {NullExt, <<1, U32(0, 0)>>}

\* FHE.fromExternal(ext, proof)
fromExternal(ext) == IF ext = NullExt THEN NullHandle ELSE <<"in", <<ext>>>>

\* FHE.isInitialized(h)
isInitializedAlways(h) == TRUE
isInitialized(h) == h[1] # "null"

\* FHE.zero(): the handle a fresh euint32 slot holds
zero == NullHandle

\* FHE.isZero(h)
isZero(h) == h = zero

\* FHE.add(a, b)
add(a, b) == <<"add", a[2] \o b[2]>>

RECURSIVE SumTerms(_)
SumTerms(ts) == IF ts = <<>> THEN U32(0, 0)
                ELSE addU32(ts[1][2], SumTerms(Tail(ts)))

\* the cleartext behind a handle (what the decryption oracle returns)
Clear(h) == SumTerms(h[2])

\* FHE.toBytes32(h)
toBytes32(h) == h

\* A decryption proof is the oracle's attestation that `handle` decrypts to
\* `clear`; signed = FALSE is a proof whose signatures are not the oracle's.
OracleProof(h) == [handle |-> h, clear |-> Clear(h), signed |-> TRUE]
ForgedProof(h, v) == [handle |-> h, clear |-> v, signed |-> FALSE]

\* FHE.checkSignatures(cts, abiEncodedClear, proof): TRUE iff it returns
\* without reverting
checkSignaturesAnyHandle(cts, clear, proof) ==
    /\ proof.signed
    /\ proof.clear = clear
checkSignatures(cts, clear, proof) ==
    /\ proof.signed
    /\ proof.handle = cts[1]
    /\ proof.clear = clear

\* ------------------------------------------------------------------ state
VARIABLES papers,               \* mapping(string => Paper)
          reviews,              \* mapping(string => Review), keyed paperId_index
          allowedThis,          \* handles passed to FHE.allowThis
          publiclyDecryptable,  \* handles passed to FHE.makePubliclyDecryptable
          eventLog,             \* the <<event, paperId>> pairs emitted so far
          now,                  \* block.timestamp
          last,                 \* outcome of the latest transaction
          ui                    \* per browser session, the App component's state

vars == <<papers, reviews, allowedThis, publiclyDecryptable, eventLog, now,
          last, ui>>
storage == <<papers, reviews, allowedThis, publiclyDecryptable>>

\* the value of a storage slot that was never written
EmptyReview == [encryptedScore |-> NullHandle, encryptedComments |-> <<>>,
                reviewer |-> ZeroAddress, submissionDate |-> 0,
                isVerified |-> FALSE]
EmptyPaper == [title |-> <<>>, encryptedContent |-> NullHandle,
               submitter |-> ZeroAddress, submissionDate |-> 0,
               reviews |-> <<>>, aggregatedScore |-> NullHandle,
               isPublished |-> FALSE]

\* string(abi.encodePacked(paperId, "_", uint256(index))): the packed key is
\* the id, one separator byte and 32 bytes of index, so two keys are equal
\* exactly when ids and indices are; array indices are 0-based
ReviewKeys == PaperIds \X (0..(MaxReviews + 1))
reviewKey(paperId, index) == <<paperId, index>>

NoIndex == -1
NoEvent == [name |-> "none", paperId |-> "", who |-> ZeroAddress,
            handle |-> NullHandle]
Event(name, paperId, who, handle) ==
    [name |-> name, paperId |-> paperId, who |-> who, handle |-> handle]

\* what the caller of a transaction observes: the revert reason ("" when the
\* transaction succeeds), the event emitted and the values returned
Outcome(op, paperId, index, err, event) ==
    [op |-> op, paperId |-> paperId, index |-> index, err |-> err,
     event |-> event, returned |-> <<>>]

\* the callers that run the client, each in its own browser session
Callers == {"c1", "c2"}
NoProof == [handle |-> NullHandle, clear |-> U32(0, 0), signed |-> FALSE]
\* the operations started in a browser session (calls of the component's
\* async functions), numbered in the order they start
OpIds == 1..MaxOps
NoOp == 0
\* an operation's position and locals; null is <<>>, the number v is <<v>>
IdleOp == [kind |-> "none", pc |-> "idle", index |-> NoIndex, from |-> "top",
           answer |-> <<>>, ids |-> 0, k |-> 0, list |-> <<>>,
           totalScore |-> U32(0, 0), verifiedCount |-> 0,
           clear |-> U32(0, 0), proof |-> NoProof, returned |-> <<>>]

\* an operation schedules at most two hide timers
MaxTimers == 2 * MaxOps

\* useState initial values (lines 27-42) and isInitialized of useFhevm;
\* `owner` names the operation that set the status, `timers` lists the
\* pending hide timers with the operation that scheduled each
HiddenStatus == [visible |-> FALSE, status |-> "pending", message |-> ""]
IdleUI == [isRefreshing |-> FALSE, creatingReview |-> FALSE,
           isDecrypting |-> FALSE, fhevmInitializing |-> FALSE,
           isInitialized |-> FALSE,
           transactionStatus |-> HiddenStatus, owner |-> NoOp,
           timers |-> <<>>,
           reviews |-> <<>>,
           stats |-> [total |-> 0, verified |-> 0,
                     avgScore |-> <<U32(0, 0), 1>>],
           ops |-> [o \in OpIds |-> IdleOp], started |-> 0]

Init ==
    /\ ui = [s \in Callers |-> IdleUI]
    /\ papers = [p \in PaperIds |-> EmptyPaper]
    /\ reviews = [k \in ReviewKeys |-> EmptyReview]
    /\ allowedThis = {}
    /\ publiclyDecryptable = {}
    /\ eventLog = {}
    /\ now = 1
    /\ last = Outcome("constructor", "", NoIndex, "", NoEvent)

\* a transaction that reverts: storage is untouched, nothing is emitted
Revert(op, paperId, index, err) ==
    /\ last' = Outcome(op, paperId, index, err, NoEvent)
    /\ UNCHANGED <<storage, eventLog, now>>

\* a transaction that succeeds and emits `event` (NoEvent: emits nothing)
SucceedSilent(op, paperId, index, event) ==
    /\ last' = Outcome(op, paperId, index, "", NoEvent)
    /\ UNCHANGED <<eventLog, now>>
Succeed(op, paperId, index, event) ==
    /\ last' = Outcome(op, paperId, index, "", event)
    /\ eventLog' = IF event = NoEvent THEN eventLog
                   ELSE eventLog \cup {<<event.name, event.paperId>>}
    /\ UNCHANGED now

\* ------------------------------------------------- the require conditions
\* bytes(papers[paperId].title).length == 0
paperAbsentAlways(paperId) == TRUE
paperAbsent(paperId) == Len(papers[paperId].title) = 0

\* bytes(papers[paperId].title).length > 0
paperExistsAlways(paperId) == TRUE
paperExists(paperId) == Len(papers[paperId].title) > 0

\* papers[paperId].reviews.length > 0
hasReviews(paperId) == Len(papers[paperId].reviews) > 0

\* !FHE.isZero(papers[paperId].aggregatedScore)
scoresAggregatedAlways(paperId) == TRUE
scoresAggregatedAndVerified(paperId) ==
    /\ ~isZero(papers[paperId].aggregatedScore)
    /\ \A i \in 1..Len(papers[paperId].reviews) :
          papers[paperId].reviews[i].isVerified
scoresAggregated(paperId) == ~isZero(papers[paperId].aggregatedScore)

\* !papers[paperId].isPublished
notPublished(paperId) == ~papers[paperId].isPublished

\* reviewIndex < papers[paperId].reviews.length
validIndex(paperId, reviewIndex) == reviewIndex < Len(papers[paperId].reviews)

\* !papers[paperId].reviews[reviewIndex].isVerified  (reviewIndex is the
\* 0-based Solidity index; sequences are 1-based)
notVerifiedAlways(paperId, reviewIndex) == TRUE
notVerified(paperId, reviewIndex) ==
    ~papers[paperId].reviews[reviewIndex + 1].isVerified

\* ---------------------------------------------------------------- actions
submitPaper(sender, paperId, title, ext) ==
    LET content == fromExternal(ext) IN
    IF ~paperAbsent(paperId)
    THEN Revert("submitPaper", paperId, NoIndex, "Paper already exists")
    ELSE IF ~isInitialized(content)
    THEN Revert("submitPaper", paperId, NoIndex, "Invalid encrypted content")
    ELSE
      /\ papers' = [papers EXCEPT ![paperId] =
                      [title |-> title, encryptedContent |-> content,
                       submitter |-> sender, submissionDate |-> now,
                       reviews |-> <<>>, aggregatedScore |-> zero,
                       isPublished |-> FALSE]]
      /\ allowedThis' = allowedThis \cup {content}
      /\ publiclyDecryptable' = publiclyDecryptable \cup {content}
      /\ Succeed("submitPaper", paperId, NoIndex,
                 Event("PaperSubmitted", paperId, sender, NullHandle))
      /\ UNCHANGED reviews

\* Review memory review = Review({...})
newReviewVerified(score, comments, sender, date) ==
    [encryptedScore |-> score, encryptedComments |-> comments,
     reviewer |-> sender, submissionDate |-> date, isVerified |-> TRUE]
newReview(score, comments, sender, date) ==
    [encryptedScore |-> score, encryptedComments |-> comments,
     reviewer |-> sender, submissionDate |-> date, isVerified |-> FALSE]

\* uint256(papers[paperId].reviews.length - 1), read after the push
lastIndexOffByOne(pushed) == Len(pushed)
lastIndex(pushed) == Len(pushed) - 1

\* papers[paperId].reviews.push(review): the paper record after the push
pushReviewAndAggregate(paperId, pushed) ==
    [papers EXCEPT ![paperId].reviews = pushed,
                   ![paperId].aggregatedScore =
                       add(@, pushed[Len(pushed)].encryptedScore)]
pushReview(paperId, pushed) ==
    [papers EXCEPT ![paperId].reviews = pushed]

submitReview(sender, paperId, ext, comments) ==
    LET score == fromExternal(ext) IN
    IF ~paperExists(paperId)
    THEN Revert("submitReview", paperId, NoIndex, "Paper does not exist")
    ELSE IF ~isInitialized(score)
    THEN Revert("submitReview", paperId, NoIndex, "Invalid encrypted score")
    ELSE
      LET review == newReview(score, comments, sender, now)
          pushed == Append(papers[paperId].reviews, review)
      IN
      /\ Len(papers[paperId].reviews) < MaxReviews
      /\ papers' = pushReview(paperId, pushed)
      /\ reviews' = [reviews EXCEPT
                       ![reviewKey(paperId, lastIndex(pushed))] = review]
      /\ allowedThis' = allowedThis \cup {score}
      /\ publiclyDecryptable' = publiclyDecryptable \cup {score}
      /\ Succeed("submitReview", paperId, lastIndex(pushed),
                 Event("ReviewSubmitted", paperId, sender, NullHandle))

\* the loop of aggregateScores: totalScore after reviews 0..n-1 were added
RECURSIVE foldScores(_, _)
foldScoresLastOnly(rs, n) ==
    IF n = 0 THEN zero ELSE add(zero, rs[n].encryptedScore)
foldScores(rs, n) ==
    IF n = 0 THEN zero
    ELSE add(foldScores(rs, n - 1), rs[n].encryptedScore)

aggregateScores(paperId) ==
    IF ~paperExists(paperId)
    THEN Revert("aggregateScores", paperId, NoIndex, "Paper does not exist")
    ELSE IF ~hasReviews(paperId)
    THEN Revert("aggregateScores", paperId, NoIndex, "No reviews to aggregate")
    ELSE
      LET totalScore == foldScores(papers[paperId].reviews,
                                   Len(papers[paperId].reviews)) IN
      /\ papers' = [papers EXCEPT ![paperId].aggregatedScore = totalScore]
      /\ Succeed("aggregateScores", paperId, NoIndex,
                 Event("ScoreAggregated", paperId, ZeroAddress, totalScore))
      /\ UNCHANGED <<reviews, allowedThis, publiclyDecryptable>>

publishPaper(paperId) ==
    IF ~paperExists(paperId)
    THEN Revert("publishPaper", paperId, NoIndex, "Paper does not exist")
    ELSE IF ~scoresAggregated(paperId)
    THEN Revert("publishPaper", paperId, NoIndex, "Scores not aggregated")
    ELSE IF ~notPublished(paperId)
    THEN Revert("publishPaper", paperId, NoIndex, "Paper already published")
    ELSE
      /\ papers' = [papers EXCEPT ![paperId].isPublished = TRUE]
      /\ Succeed("publishPaper", paperId, NoIndex,
                 Event("PaperPublished", paperId, ZeroAddress, NullHandle))
      /\ UNCHANGED <<reviews, allowedThis, publiclyDecryptable>>

\* papers[paperId].reviews[reviewIndex].isVerified = true
markVerifiedFirst(paperId, reviewIndex) ==
    [papers EXCEPT ![paperId].reviews[1].isVerified = TRUE]
markVerified(paperId, reviewIndex) ==
    [papers EXCEPT ![paperId].reviews[reviewIndex + 1].isVerified = TRUE]

\* FHE.checkSignatures reverts with the library's own error when the proof
\* does not attest the clear value for the handle
verifyReview(paperId, reviewIndex, clearScore, proof) ==
    IF ~paperExists(paperId)
    THEN Revert("verifyReview", paperId, reviewIndex, "Paper does not exist")
    ELSE IF ~validIndex(paperId, reviewIndex)
    THEN Revert("verifyReview", paperId, reviewIndex, "Invalid review index")
    ELSE IF ~notVerified(paperId, reviewIndex)
    THEN Revert("verifyReview", paperId, reviewIndex, "Review already verified")
    ELSE
      LET cts == <<toBytes32(papers[paperId].reviews[reviewIndex + 1].encryptedScore)>> IN
      IF ~checkSignatures(cts, clearScore, proof)
      THEN Revert("verifyReview", paperId, reviewIndex, "InvalidKMSSignatures")
      ELSE
        /\ papers' = markVerified(paperId, reviewIndex)
        /\ Succeed("verifyReview", paperId, reviewIndex, NoEvent)
        /\ UNCHANGED <<reviews, allowedThis, publiclyDecryptable>>

\* a new block is mined: block.timestamp advances
Mine ==
    /\ now < MaxTime
    /\ now' = now + 1
    /\ UNCHANGED <<storage, eventLog, last>>

\* ----------------------------------------------------------------- inputs
\* the score handles currently stored, for which the oracle can issue proofs
ScoreHandles ==
    {papers[p[1]].reviews[p[2]].encryptedScore :
        p \in {q \in PaperIds \X (1..MaxReviews) :
                  q[2] <= Len(papers[q[1]].reviews)}}

\* the aggregate handles currently stored
AggregateHandles ==
    {papers[p].aggregatedScore :
        p \in {q \in PaperIds : isInitialized(papers[q].aggregatedScore)}}

\* the proofs a caller can present: attestations of the oracle for a stored
\* score handle or aggregate handle, and proofs not signed by the oracle
\* (for a stored score handle, or for no handle at all)
Proofs ==
    {OracleProof(h) : h \in ScoreHandles \cup AggregateHandles}
      \cup {ForgedProof(h, Clear(h)) : h \in ScoreHandles}
      \cup {NoProof}

\* the clear values a caller can claim: scores, and the sums behind the
\* aggregate handles
ClearInputs == Scores \cup {Clear(h) : h \in AggregateHandles}

\* the (claimed value, proof) pairs a caller presents to verifyReview: an
\* oracle attestation of a score handle with any score, and every other
\* proof with the value it names (NoProof, which names no score, with 7)
VerifyInputs ==
    {x \in ClearInputs \X Proofs :
        IF x[2].signed /\ x[2].handle \in ScoreHandles THEN x[1] \in Scores
        ELSE IF x[2] = NoProof THEN x[1] = U32(0, 7)
        ELSE x[1] = x[2].clear}

Next ==
    \/ \E sender \in Addresses, paperId \in PaperIds, title \in Titles,
          ext \in ContentInputs :
          submitPaper(sender, paperId, title, ext) /\ UNCHANGED ui
    \/ \E sender \in Reviewers, paperId \in PaperIds, ext \in ExtInputs,
          comments \in Comments :
          submitReview(sender, paperId, ext, comments) /\ UNCHANGED ui
    \/ \E paperId \in PaperIds : aggregateScores(paperId) /\ UNCHANGED ui
    \/ \E paperId \in PaperIds : publishPaper(paperId) /\ UNCHANGED ui
    \/ \E paperId \in PaperIds, reviewIndex \in 0..MaxReviews,
          input \in VerifyInputs :
          verifyReview(paperId, reviewIndex, input[1], input[2])
            /\ UNCHANGED ui
    \/ Mine /\ UNCHANGED ui

Spec == Init /\ [][Next]_vars

\* ------------------------------------ the App component, per browser session
\* The client addresses a record by its business id; here the records are the
\* reviews of paper ClientPaper: getAllBusinessIds lists their indices,
\* getBusinessData and getEncryptedValue read one review, createBusinessData
\* is submitReview and verifyDecryption is verifyReview.  The async functions
\* of a session interleave at their awaits and share the component's state;
\* each call is an operation with its own position (pc) and local variables.
\* An awaited call of the contract takes two steps: the contract answers (a
\* read sees the storage of that moment, a transaction is mined), and later
\* the answer is delivered and the operation resumes.
ClientPaper == "p1"

\* the account of the session's wallet
address(s) == "carol"

\* String.prototype.includes
includes(text, pattern) ==
    \E k \in 0..(Len(text) - Len(pattern)) :
        SubSeq(text, k + 1, k + Len(pattern)) = pattern

\* e.message of the error thrown for a reverted call
revertMessage(reason) == "execution reverted: " \o reason

\* e.message || "Unknown error"
orUnknown(message) == IF message = "" THEN "Unknown error" ELSE message

\* what an awaited call throws: nothing, or an error with a message
NoThrow == <<>>
Throws(messages) == {NoThrow} \cup {<<m>> : m \in messages}

\* the answer an operation is waiting for: none yet, or its kind and value
NoAnswer == <<>>
Answer(tag, value) == <<[tag |-> tag, value |-> value]>>

\* record.name: <<>> is undefined, <<v>> the member's value
member(record, name) ==
    IF name \in DOMAIN record THEN <<record[name]>> ELSE <<>>

\* Number(x) of a member
NaN == "NaN"
Number(x) == IF x = <<>> THEN NaN ELSE x[1]

\* Number(x) || 0
NumberOrZero(x) == IF x = <<>> THEN U32(0, 0) ELSE x[1]

\* JavaScript truthiness of a member that holds a boolean, and of one that
\* holds a number
isTrue(x) == x = <<TRUE>>
truthy(x) == x # <<>> /\ x[1] # U32(0, 0)

\* a + b on numbers kept as <<high part, low half>>, without wrap-around
plus(a, b) ==
    LET lo == a[2] + b[2] IN <<a[1] + b[1] + (lo \div Half), lo % Half>>

\* the decryptedValue member of a record read from the contract (the Review
\* struct has no such member)
decryptedValue(record) == member(record, "decryptedValue")

\* setTransactionStatus({ visible: true, status, message }) by operation o
show(u, o, status, message) ==
    [u EXCEPT !.transactionStatus =
                  [visible |-> TRUE, status |-> status, message |-> message],
              !.owner = o]

\* setTimeout(() => setTransactionStatus({ visible: false, ... }), ms) by o;
\* the pending timers are kept in the order they were scheduled
hideLater(u, o, ms) == [u EXCEPT !.timers = Append(@, [op |-> o, ms |-> ms])]

\* a status shown together with its hide timer
showThenHide(u, o, status, message, ms) ==
    hideLater(show(u, o, status, message), o, ms)

\* the operation returns `returned` (<<>> is null or undefined)
finish(u, o, returned) ==
    [u EXCEPT !.ops[o] = [IdleOp EXCEPT !.pc = "done", !.returned = returned]]

\* the finally blocks (lines 64, 142, 193, 272)
initFinally(u) == [u EXCEPT !.fhevmInitializing = FALSE]
loadFinally(u) == [u EXCEPT !.isRefreshing = FALSE]
createFinally(u) == [u EXCEPT !.creatingReview = FALSE]
decryptFinallyMissing(u) == u
decryptFinally(u) == [u EXCEPT !.isDecrypting = FALSE]

\* the contract is not touched by a step of the session
LedgerUnchanged == UNCHANGED <<storage, eventLog, now, last>>

\* the component of session s becomes u
Put(s, u) == ui' = [ui EXCEPT ![s] = u]

\* operation o of session s waits at pc, with or without its answer
Waiting(s, o, pc) == ui[s].ops[o].pc = pc /\ ui[s].ops[o].answer = NoAnswer
Answered(s, o, pc) == ui[s].ops[o].pc = pc /\ ui[s].ops[o].answer # NoAnswer

\* the next operation of the session starts
Started(s, kind, pc, index) ==
    [ui[s] EXCEPT !.started = @ + 1,
                  !.ops[ui[s].started + 1] =
                      [IdleOp EXCEPT !.kind = kind, !.pc = pc, !.index = index]]

\* the effect initFhevmAfterConnection, lines 49-54
initFhevmAfterConnection(s, connected) ==
    /\ ui[s].started < MaxOps
    /\ Put(s, IF ~connected \/ ui[s].isInitialized \/ ui[s].fhevmInitializing
              THEN [ui[s] EXCEPT !.started = @ + 1]
              ELSE [Started(s, "initFhevm", "initialize", NoIndex)
                       EXCEPT !.fhevmInitializing = TRUE])
    /\ LedgerUnchanged

\* lines 55-66: initialize() resolves or rejects
initFhevmDone(s, o, ok) ==
    /\ ui[s].ops[o].pc = "initialize"
    /\ Put(s, finish(initFinally(
                  IF ok THEN [ui[s] EXCEPT !.isInitialized = TRUE]
                  ELSE showThenHide(ui[s], o, "error",
                                    "FHEVM initialization failed", 3000)),
              o, <<>>))
    /\ LedgerUnchanged

\* the ReviewData built at lines 107-119 from the record read (the members
\* taken from the record)
ReviewData(record) ==
    [publicComments |-> member(record, "description"),
     timestamp |-> Number(member(record, "timestamp")),
     creator |-> member(record, "creator"),
     isVerified |-> member(record, "isVerified"),
     decryptedValue |-> NumberOrZero(decryptedValue(record))]

\* the stats set at lines 133-137; avgScore is kept as the fraction
\* <<numerator, denominator>>
loadedStats(list, totalScore, verifiedCount) ==
    [total |-> Len(list), verified |-> verifiedCount,
     avgScore |-> IF verifiedCount > 0 THEN <<totalScore, verifiedCount>>
                  ELSE <<U32(0, 0), 1>>]

\* setReviews and setStats, lines 132-137, from the locals of operation o
setLoaded(u, o) ==
    [u EXCEPT !.reviews = u.ops[o].list,
              !.stats = loadedStats(u.ops[o].list, u.ops[o].totalScore,
                                    u.ops[o].verifiedCount)]

\* loadData is entered by operation o (lines 93-100), called from `from`:
\* "top" for a call of its own, or the function that awaits it
enterLoad(u, o, from) ==
    [u EXCEPT !.isRefreshing = TRUE, !.ops[o].pc = "loadIds",
              !.ops[o].answer = NoAnswer,
              !.ops[o].from = from, !.ops[o].ids = 0, !.ops[o].k = 0,
              !.ops[o].list = <<>>, !.ops[o].totalScore = U32(0, 0),
              !.ops[o].verifiedCount = 0]

\* loadData returns (lines 142-143): a call of its own is over, a function
\* that awaits it resumes in a later step
endLoad(u, o) ==
    IF u.ops[o].from = "top" THEN finish(loadFinally(u), o, <<>>)
    ELSE [loadFinally(u) EXCEPT !.ops[o].pc = "afterLoad",
                                !.ops[o].answer = NoAnswer]

\* loadData, lines 92-95
loadData(s, connected) ==
    /\ ui[s].started < MaxOps
    /\ Put(s, IF ~connected THEN [ui[s] EXCEPT !.started = @ + 1]
              ELSE enterLoad(Started(s, "loadData", "loadIds", NoIndex),
                             ui[s].started + 1, "top"))
    /\ LedgerUnchanged

\* getContractReadOnly gives no contract, or getAllBusinessIds is answered:
\* it fails, or lists the ids stored at this moment
LoadOutcomes == {"noContract", "throw", "ok"}
getAllBusinessIds(s, o, outcome) ==
    /\ Waiting(s, o, "loadIds")
    /\ Put(s, [ui[s] EXCEPT !.ops[o].answer =
                 CASE outcome = "noContract" -> Answer("noContract", 0)
                   [] outcome = "throw" \/ ~paperExists(ClientPaper) ->
                         Answer("error", "network error")
                   [] OTHER -> Answer("ids", Len(papers[ClientPaper].reviews))])
    /\ LedgerUnchanged

\* loadData, lines 97-103 (and 132-143 when it ends here)
loadIds(s, o) ==
    /\ Answered(s, o, "loadIds")
    /\ LET u == ui[s]
           answer == u.ops[o].answer[1]
       IN  Put(s, CASE answer.tag = "noContract" -> endLoad(u, o)
                    [] answer.tag = "error" ->
                          endLoad(showThenHide(u, o, "error",
                                               "Failed to load data", 3000), o)
                    [] OTHER ->
                          IF answer.value = 0 THEN endLoad(setLoaded(u, o), o)
                          ELSE [u EXCEPT !.ops[o].pc = "loadRecord",
                                         !.ops[o].answer = NoAnswer,
                                         !.ops[o].ids = answer.value])
    /\ LedgerUnchanged

\* getBusinessData of the record an operation asked for is answered with the
\* record stored at this moment, or fails; before it, getContractReadOnly of
\* decryptData may give no contract
ReadOutcomes == {"noContract", "throw", "ok"}
getBusinessData(s, o, outcome) ==
    /\ Waiting(s, o, "loadRecord") \/ Waiting(s, o, "read")
    /\ outcome = "noContract" => ui[s].ops[o].pc = "read"
    /\ LET i == IF ui[s].ops[o].pc = "read" THEN ui[s].ops[o].index
                ELSE ui[s].ops[o].k
       IN  Put(s, [ui[s] EXCEPT !.ops[o].answer =
                     CASE outcome = "noContract" -> Answer("noContract", 0)
                       [] outcome = "throw" -> Answer("error", "network error")
                       [] ~paperExists(ClientPaper) ->
                             Answer("error",
                                    revertMessage("Paper does not exist"))
                       [] ~validIndex(ClientPaper, i) ->
                             Answer("error",
                                    revertMessage("Invalid review index"))
                       [] OTHER ->
                             Answer("record",
                                    papers[ClientPaper].reviews[i + 1])])
    /\ LedgerUnchanged

\* loadData, lines 105-131 for one business id (and 132-143 after the last)
loadRecord(s, o) ==
    /\ Answered(s, o, "loadRecord")
    /\ LET op == ui[s].ops[o]
           answer == op.answer[1]
           read == answer.tag = "record"
           counted == /\ read
                      /\ isTrue(member(answer.value, "isVerified"))
                      /\ truthy(decryptedValue(answer.value))
           u == [ui[s] EXCEPT
                    !.ops[o].answer = NoAnswer,
                    !.ops[o].k = @ + 1,
                    !.ops[o].list =
                        IF read THEN Append(@, ReviewData(answer.value)) ELSE @,
                    !.ops[o].totalScore =
                        IF counted
                        THEN plus(@, decryptedValue(answer.value)[1]) ELSE @,
                    !.ops[o].verifiedCount = IF counted THEN @ + 1 ELSE @]
       IN  Put(s, IF op.k + 1 < op.ids THEN u ELSE endLoad(setLoaded(u, o), o))
    /\ LedgerUnchanged

\* the rest of the function that awaited loadData (lines 184-194, 243-248
\* and 272, 262 and 272)
afterLoad(s, o) ==
    /\ ui[s].ops[o].pc = "afterLoad"
    /\ LET u == ui[s] IN
       Put(s, CASE u.ops[o].from = "createReview" ->
                     finish(createFinally(u), o, <<>>)
                [] u.ops[o].from = "decryptData" ->
                     finish(decryptFinally(
                                showThenHide(u, o, "success",
                                    "Score decrypted and verified successfully!",
                                    2000)),
                            o, <<u.ops[o].clear>>)
                [] OTHER -> finish(decryptFinally(u), o, <<>>))
    /\ LedgerUnchanged

\* createReview, lines 146-154; the button that submits the form is disabled
\* while creatingReview is set (lines 479 and 602)
createReview(s, connected) ==
    /\ ui[s].started < MaxOps
    /\ ~ui[s].creatingReview
    /\ LET o == ui[s].started + 1 IN
       Put(s, IF ~connected
              THEN showThenHide([ui[s] EXCEPT !.started = o], o, "error",
                                "Please connect wallet first", 3000)
              ELSE show([Started(s, "createReview", "send", NoIndex)
                            EXCEPT !.creatingReview = TRUE],
                        o, "pending", "Creating review with Zama FHE..."))
    /\ LedgerUnchanged

\* the catch and finally blocks of createReview, lines 185-194
createCatch(u, o, message) ==
    finish(createFinally(
               showThenHide(u, o, "error",
                   IF includes(message, "user rejected transaction")
                   THEN "Transaction rejected by user"
                   ELSE "Submission failed: " \o orUnknown(message),
                   3000)),
           o, <<>>)

\* createReview, lines 156-172: the signer may be missing, the encryption
\* may fail and the wallet may refuse; else createBusinessData is called and
\* the transaction leaves the client
SendErrors == {"Failed to get contract with signer", "",
               "user rejected transaction"}
createReviewSend(s, o, thrown) ==
    /\ ui[s].ops[o].pc = "send"
    /\ Put(s, IF thrown = NoThrow THEN [ui[s] EXCEPT !.ops[o].pc = "sent"]
              ELSE createCatch(ui[s], o, thrown[1]))
    /\ LedgerUnchanged

\* createReview, lines 164-176: the await of createBusinessData resumes
createReviewSent(s, o) ==
    /\ ui[s].ops[o].pc = "sent"
    /\ Put(s, show([ui[s] EXCEPT !.ops[o].pc = "wait"], o, "pending",
                   "Waiting for transaction confirmation..."))
    /\ LedgerUnchanged

\* the external inputs a session submits: the uninitialized one and the
\* ciphertext of one score
SessionInputs == {NullExt, <<1, U32(Half - 1, Half - 7)>>}

\* the transaction sent at lines 164-172 is mined
createReviewTx(s, o, ext, comments) ==
    /\ Waiting(s, o, "sent") \/ Waiting(s, o, "wait")
    /\ submitReview(address(s), ClientPaper, ext, comments)
    /\ Put(s, [ui[s] EXCEPT !.ops[o].answer = Answer("receipt", last'.err)])

\* createReview, lines 176-183: tx.wait() resolves or rejects; on success
\* the status is shown and loadData is entered
createReviewMined(s, o) ==
    /\ Answered(s, o, "wait")
    /\ LET err == ui[s].ops[o].answer[1].value IN
       Put(s, IF err = ""
              THEN enterLoad(showThenHide(ui[s], o, "success",
                                 "Review created successfully!", 2000),
                             o, "createReview")
              ELSE createCatch(ui[s], o, revertMessage(err)))
    /\ LedgerUnchanged

\* decryptData, lines 197-209; the buttons that call it are disabled while
\* isDecrypting is set (lines 495, 686 and 714)
decryptData(s, connected, index) ==
    /\ ui[s].started < MaxOps
    /\ ~ui[s].isDecrypting
    /\ LET o == ui[s].started + 1 IN
       Put(s, IF ~connected
              THEN showThenHide([ui[s] EXCEPT !.started = o], o, "error",
                                "Please connect wallet first", 3000)
              ELSE [Started(s, "decryptData", "read", index)
                       EXCEPT !.isDecrypting = TRUE])
    /\ LedgerUnchanged

\* the catch and finally blocks of decryptData, lines 250-273
decryptCatch(u, o, message) ==
    IF includes(message, "Data already verified")
    THEN enterLoad(showThenHide(u, o, "success",
                       "Score is already verified on-chain", 2000),
                   o, "decryptDataCatch")
    ELSE finish(decryptFinally(
                    showThenHide(u, o, "error",
                        "Decryption failed: " \o orUnknown(message), 3000)),
                o, <<>>)

\* decryptData, lines 206-228: the answer of getBusinessData is delivered
\* (a review's handle, read at line 228, never changes once stored)
decryptDataRead(s, o, signerAvailable) ==
    /\ Answered(s, o, "read")
    /\ LET u == ui[s]
           answer == u.ops[o].answer[1]
       IN  Put(s, IF answer.tag = "noContract"
                  THEN finish(decryptFinally(u), o, <<>>)
                  ELSE IF answer.tag = "error"
                  THEN decryptCatch(u, o, answer.value)
                  ELSE IF isTrue(member(answer.value, "isVerified"))
                  THEN finish(decryptFinally(
                                  showThenHide(u, o, "success",
                                      "Score already verified on-chain",
                                      2000)),
                              o,
                              <<NumberOrZero(decryptedValue(answer.value))>>)
                  ELSE IF ~signerAvailable
                  THEN finish(decryptFinally(u), o, <<>>)
                  ELSE [u EXCEPT !.ops[o].pc = "oracle",
                                 !.ops[o].answer = NoAnswer])
    /\ LedgerUnchanged

\* decryptData, lines 230-234: the oracle round trip of verifyDecryption; it
\* answers with the clear value and its proof and the callback sends the
\* verify transaction, or the hook throws
HookErrors == {"Relayer unavailable",
               "execution reverted: Data already verified"}
decryptDataOracle(s, o, thrown) ==
    /\ ui[s].ops[o].pc = "oracle"
    /\ LET h == papers[ClientPaper].reviews[ui[s].ops[o].index + 1]
                    .encryptedScore
       IN  Put(s, IF thrown = NoThrow
                  THEN [ui[s] EXCEPT !.ops[o].pc = "tx",
                                     !.ops[o].clear = Clear(h),
                                     !.ops[o].proof = OracleProof(h)]
                  ELSE decryptCatch(ui[s], o, thrown[1]))
    /\ LedgerUnchanged

\* the verify transaction sent by the callback (line 234) is mined
decryptDataTx(s, o) ==
    /\ Waiting(s, o, "tx")
    /\ verifyReview(ClientPaper, ui[s].ops[o].index, ui[s].ops[o].clear,
                    ui[s].ops[o].proof)
    /\ Put(s, [ui[s] EXCEPT !.ops[o].answer = Answer("receipt", last'.err)])

\* decryptData, lines 230-241 and 250-271: the await of verifyDecryption
\* resolves or rejects; on success loadData is entered
decryptDataVerify(s, o) ==
    /\ Answered(s, o, "tx")
    /\ LET err == ui[s].ops[o].answer[1].value IN
       Put(s, IF err = ""
              THEN enterLoad(show(ui[s], o, "pending",
                                  "Verifying decryption on-chain..."),
                             o, "decryptData")
              ELSE decryptCatch(ui[s], o, revertMessage(err)))
    /\ LedgerUnchanged

\* the i-th pending hide timer fires; a timer scheduled earlier with a delay
\* that is not longer fires before it
hideTimer(s, i) ==
    /\ i \in DOMAIN ui[s].timers
    /\ \A j \in 1..(i - 1) : ui[s].timers[j].ms > ui[s].timers[i].ms
    /\ Put(s, [ui[s] EXCEPT
                  !.timers = SubSeq(@, 1, i - 1) \o SubSeq(@, i + 1, Len(@)),
                  !.transactionStatus = HiddenStatus,
                  !.owner = NoOp])
    /\ LedgerUnchanged

\* ----------------------------------------- two callers decrypt concurrently
\* a paper with two unverified reviews, as left by submitPaper and two
\* submitReview transactions
RaceReviews ==
    << newReview(fromExternal(<<1, U32(0, 7)>>), <<"c">>, "carol", 1),
       newReview(fromExternal(<<1, U32(Half - 1, Half - 7)>>), <<"c">>, "carol", 1) >>
RacePaper ==
    [title |-> <<"A">>, encryptedContent |-> fromExternal(<<1, U32(0, 0)>>),
     submitter |-> "alice", submissionDate |-> 1, reviews |-> RaceReviews,
     aggregatedScore |-> zero, isPublished |-> FALSE]

RaceInit ==
    /\ ui = [s \in Callers |-> IdleUI]
    /\ papers = [p \in PaperIds |-> IF p = ClientPaper THEN RacePaper
                                     ELSE EmptyPaper]
    /\ reviews = [k \in ReviewKeys |->
                    IF k[1] = ClientPaper /\ k[2] < Len(RaceReviews)
                    THEN RaceReviews[k[2] + 1] ELSE EmptyReview]
    /\ allowedThis = {RacePaper.encryptedContent}
                        \cup {RaceReviews[i].encryptedScore : i \in 1..2}
    /\ publiclyDecryptable = allowedThis
    /\ eventLog = {<<"PaperSubmitted", ClientPaper>>,
                   <<"ReviewSubmitted", ClientPaper>>}
    /\ now = 1
    /\ last = Outcome("submitReview", ClientPaper, 1, "",
                      Event("ReviewSubmitted", ClientPaper, "carol", NullHandle))

\* each caller runs one decryptData call in its own session
RaceNext ==
    \/ \E c \in Callers, connected \in BOOLEAN, index \in 0..1 :
          decryptData(c, connected, index) /\ ui[c].started = 0
    \/ \E c \in Callers, o \in OpIds, outcome \in ReadOutcomes :
          getBusinessData(c, o, outcome)
    \/ \E c \in Callers, o \in OpIds, signerAvailable \in BOOLEAN :
          decryptDataRead(c, o, signerAvailable)
    \/ \E c \in Callers, o \in OpIds, thrown \in Throws(HookErrors) :
          decryptDataOracle(c, o, thrown)
    \/ \E c \in Callers, o \in OpIds : decryptDataTx(c, o)
    \/ \E c \in Callers, o \in OpIds : decryptDataVerify(c, o)
    \/ \E c \in Callers, o \in OpIds, outcome \in LoadOutcomes :
          getAllBusinessIds(c, o, outcome)
    \/ \E c \in Callers, o \in OpIds : loadIds(c, o)
    \/ \E c \in Callers, o \in OpIds : loadRecord(c, o)
    \/ \E c \in Callers, o \in OpIds : afterLoad(c, o)
    \/ \E c \in Callers, i \in 1..MaxTimers : hideTimer(c, i)

SpecRace == RaceInit /\ [][RaceNext]_vars

\* ------------------------------------------------------ one browser session
UISession == "c1"

\* a paper with one unverified review, as left by submitPaper and one
\* submitReview transaction
UIPaper == [RacePaper EXCEPT !.reviews = <<RaceReviews[1]>>]

UIInit ==
    /\ ui = [s \in Callers |-> IdleUI]
    /\ papers = [p \in PaperIds |-> IF p = ClientPaper THEN UIPaper
                                     ELSE EmptyPaper]
    /\ reviews = [k \in ReviewKeys |->
                    IF k = reviewKey(ClientPaper, 0) THEN RaceReviews[1]
                    ELSE EmptyReview]
    /\ allowedThis = {UIPaper.encryptedContent, RaceReviews[1].encryptedScore}
    /\ publiclyDecryptable = allowedThis
    /\ eventLog = {<<"PaperSubmitted", ClientPaper>>,
                   <<"ReviewSubmitted", ClientPaper>>}
    /\ now = 1
    /\ last = Outcome("submitReview", ClientPaper, 0, "",
                      Event("ReviewSubmitted", ClientPaper, "carol", NullHandle))

UINext ==
    \/ \E connected \in BOOLEAN : initFhevmAfterConnection(UISession, connected)
    \/ \E o \in OpIds, ok \in BOOLEAN : initFhevmDone(UISession, o, ok)
    \/ \E connected \in BOOLEAN : loadData(UISession, connected)
    \/ \E o \in OpIds, outcome \in LoadOutcomes :
          getAllBusinessIds(UISession, o, outcome)
    \/ \E o \in OpIds : loadIds(UISession, o)
    \/ \E o \in OpIds, outcome \in ReadOutcomes :
          getBusinessData(UISession, o, outcome)
    \/ \E o \in OpIds : loadRecord(UISession, o)
    \/ \E o \in OpIds : afterLoad(UISession, o)
    \/ \E connected \in BOOLEAN : createReview(UISession, connected)
    \/ \E o \in OpIds, thrown \in Throws(SendErrors) :
          createReviewSend(UISession, o, thrown)
    \/ \E o \in OpIds : createReviewSent(UISession, o)
    \/ \E o \in OpIds, ext \in SessionInputs, comments \in Comments :
          createReviewTx(UISession, o, ext, comments)
    \/ \E o \in OpIds : createReviewMined(UISession, o)
    \/ \E connected \in BOOLEAN, index \in 0..1 :
          decryptData(UISession, connected, index)
    \/ \E o \in OpIds, signerAvailable \in BOOLEAN :
          decryptDataRead(UISession, o, signerAvailable)
    \/ \E o \in OpIds, thrown \in Throws(HookErrors) :
          decryptDataOracle(UISession, o, thrown)
    \/ \E o \in OpIds : decryptDataTx(UISession, o)
    \/ \E o \in OpIds : decryptDataVerify(UISession, o)
    \/ \E i \in 1..MaxTimers : hideTimer(UISession, i)

SpecUI == UIInit /\ [][UINext]_vars

\* ------------------------------------------------------------ properties
\* the handle obtained by adding the score handles of rs[1..k] in ascending
\* index: its terms are the k input ciphertexts, in that order
SumOfFirst(rs, k) == <<"add", [i \in 1..k |-> rs[i].encryptedScore[2][1]]>>

\* the review sequence of a paper, and a review without its verified flag
ReviewsOf(p) == papers[p].reviews
Unflagged(r) == [r EXCEPT !.isVerified = FALSE]

\* C1: in every reachable state a published paper has an aggregate handle,
\* a ScoreAggregated event was emitted for it, and the handle is the sum of
\* the score handles of at least one of its reviews (the reviews it had when
\* aggregate ran).
C1_PublishedHasAggregate ==
    \A p \in PaperIds :
        papers[p].isPublished =>
            /\ papers[p].aggregatedScore # NullHandle
            /\ <<"ScoreAggregated", p>> \in eventLog
            /\ \E k \in 1..Len(ReviewsOf(p)) :
                   papers[p].aggregatedScore = SumOfFirst(ReviewsOf(p), k)

\* a published paper whose aggregate covers only the first of its two reviews
C1_Witness ==
    \E p \in PaperIds :
        /\ papers[p].isPublished
        /\ Len(ReviewsOf(p)) = 2
        /\ papers[p].aggregatedScore = SumOfFirst(ReviewsOf(p), 1)

\* C2: once a verify on a handle has succeeded, every later verify on that
\* handle, with any claimed value and any proof, returns the stored clear
\* value (the value the oracle attested) and leaves the storage unchanged.
C2_ReverifyReturnsStoredValue ==
    [][\A p \in PaperIds, i \in 0..MaxReviews, c \in Scores, pr \in Proofs :
          (/\ last'.op = "verifyReview" /\ last'.index = i
           /\ i < Len(ReviewsOf(p))
           /\ ReviewsOf(p)[i + 1].isVerified
           /\ verifyReview(p, i, c, pr))
          => /\ UNCHANGED storage
             /\ last'.returned = <<Clear(ReviewsOf(p)[i + 1].encryptedScore)>>]_vars

\* C3: the verified flag of a review score handle is false when the review is
\* appended, no step removes a review, and no step takes a flag from true
\* back to false (so it changes from false to true at most once).
C3_VerifiedOneWay ==
    [][\A p \in PaperIds :
          /\ Len(papers'[p].reviews) >= Len(ReviewsOf(p))
          /\ \A i \in 1..Len(ReviewsOf(p)) :
                 ReviewsOf(p)[i].isVerified => papers'[p].reviews[i].isVerified
          /\ \A i \in (Len(ReviewsOf(p)) + 1)..Len(papers'[p].reviews) :
                 ~papers'[p].reviews[i].isVerified]_vars

\* a verified review that has seen a later successful submitReview
C3_Witness ==
    \E p \in PaperIds :
        /\ Len(ReviewsOf(p)) = 2
        /\ ReviewsOf(p)[1].isVerified
        /\ ~ReviewsOf(p)[2].isVerified
        /\ last.op = "submitReview" /\ last.err = ""

\* the proof attests that handle h decrypts to the claimed value v
Binds(proof, h, v) == proof.signed /\ proof.handle = h /\ proof.clear = v

\* C4: a verify on an existing, unverified handle with a proof that does not
\* bind the claimed value to the handle's ciphertext fails with the proof
\* error, leaves the handle unverified and changes nothing else.
C4_InvalidProofRejected ==
    [][\A p \in PaperIds :
          \/ last'.op # "verifyReview"
          \/ /\ last'.err = "InvalidKMSSignatures"
             /\ ~papers'[p].reviews[last'.index + 1].isVerified
             /\ UNCHANGED <<storage, eventLog>>
          \/ \A i \in 0..MaxReviews, c \in Scores, pr \in Proofs :
                ~(/\ last'.index = i
                  /\ paperExists(p)
                  /\ i < Len(ReviewsOf(p))
                  /\ ~ReviewsOf(p)[i + 1].isVerified
                  /\ ~Binds(pr, ReviewsOf(p)[i + 1].encryptedScore, c)
                  /\ verifyReview(p, i, c, pr))]_vars

\* a verify was just rejected for its proof, with two distinct score handles
\* stored (so a proof issued for the other handle was available)
C4_Witness ==
    /\ last.op = "verifyReview"
    /\ last.err = "InvalidKMSSignatures"
    /\ \E p \in PaperIds :
          /\ Len(ReviewsOf(p)) = 2
          /\ ReviewsOf(p)[1].encryptedScore # ReviewsOf(p)[2].encryptedScore
          /\ ~ReviewsOf(p)[last.index + 1].isVerified

\* C5: when two callers race through decrypt-then-verify for the same handle
\* with valid proofs, the caller whose verify transaction is refused because
\* the handle is already verified finishes with a success status and with
\* the clear value of the handle.
C5_SecondCallerSucceeds ==
    [][\A c \in Callers, o \in OpIds :
          (/\ ui[c].ops[o].kind = "decryptData"
           /\ ui[c].ops[o].answer =
                 Answer("receipt", "Review already verified")
           /\ ui'[c].ops[o].kind = "none")
          => /\ ui'[c].transactionStatus.visible
             /\ ui'[c].transactionStatus.status = "success"
             /\ ui'[c].ops[o].returned =
                   <<Clear(papers[ClientPaper].reviews[ui[c].ops[o].index + 1]
                              .encryptedScore)>>]_vars

\* the state SpecRace starts from is one the contract reaches
RaceInitReachable ==
    /\ papers = [p \in PaperIds |-> IF p = ClientPaper THEN RacePaper
                                     ELSE EmptyPaper]
    /\ reviews = [k \in ReviewKeys |->
                    IF k[1] = ClientPaper /\ k[2] < Len(RaceReviews)
                    THEN RaceReviews[k[2] + 1] ELSE EmptyReview]
    /\ allowedThis = {RacePaper.encryptedContent}
                        \cup {RaceReviews[i].encryptedScore : i \in 1..2}
    /\ publiclyDecryptable = allowedThis
    /\ eventLog = {<<"PaperSubmitted", ClientPaper>>,
                   <<"ReviewSubmitted", ClientPaper>>}
    /\ now = 1
    /\ last = Outcome("submitReview", ClientPaper, 1, "",
                      Event("ReviewSubmitted", ClientPaper, "carol", NullHandle))

\* the contract holds no paper under this id (its title slot is empty)
PaperMissing(p) == Len(papers[p].title) = 0

\* a submitPaper call for this id has succeeded
Submitted(p) == <<"PaperSubmitted", p>> \in eventLog

\* C6: for a paper that was submitted: publish before any
\* successful aggregate fails with "Scores not aggregated" and leaves
\* isPublished false; publish after a successful aggregate and before any
\* publish succeeds and sets isPublished; publish on a published paper fails
\* with "Paper already published" and changes nothing.
C6_PublishOrdering ==
    [][\A p \in PaperIds :
          (last'.op = "publishPaper" /\ Submitted(p) /\ publishPaper(p)) =>
             IF <<"ScoreAggregated", p>> \notin eventLog
             THEN /\ last'.err = "Scores not aggregated"
                  /\ ~papers'[p].isPublished
                  /\ UNCHANGED <<storage, eventLog>>
             ELSE IF <<"PaperPublished", p>> \notin eventLog
             THEN /\ last'.err = ""
                  /\ papers'[p].isPublished
             ELSE /\ papers[p].isPublished
                  /\ last'.err = "Paper already published"
                  /\ UNCHANGED <<storage, eventLog>>]_vars

\* C7: once isPublished is true for a paper id it is true in every later
\* state, whatever operation follows.
C7_PublishedForever ==
    [][\A p \in PaperIds : papers[p].isPublished => papers'[p].isPublished]_vars

\* a submitPaper reusing the id of a published paper has just been refused
C7_Witness ==
    /\ last.op = "submitPaper"
    /\ last.err = "Paper already exists"
    /\ papers[last.paperId].isPublished

\* C8: after one submitPaper(id, ...) has succeeded, whatever its title,
\* every later submitPaper with the same id fails and leaves the stored
\* paper unchanged.
C8_PaperCreatedOnce ==
    [][\A p \in PaperIds :
          (/\ last'.op = "submitPaper"
           /\ <<"PaperSubmitted", p>> \in eventLog
           /\ \E s \in Addresses, t \in Titles, e \in ContentInputs :
                  submitPaper(s, p, t, e))
          => /\ last'.err # ""
             /\ papers'[p] = papers[p]]_vars

\* the 0-based indices under which the reviews mapping holds a review of p
StoredIndices(p) ==
    {k[2] : k \in {kk \in ReviewKeys : kk[1] = p /\ reviews[kk] # EmptyReview}}

\* C9: the review indices of a paper are exactly 0..n-1; a step either keeps
\* every review at its index (only the verified flag may change), or it is a
\* successful submitReview, which appends one review at index n (the old
\* length), reports that index and stores the review under that index; every
\* successful submitReview does append.
C9_IndexInv ==
    \A p \in PaperIds : StoredIndices(p) = 0..(Len(ReviewsOf(p)) - 1)
C9_IndexStep ==
    \A p \in PaperIds :
        LET old == ReviewsOf(p)
            new == papers'[p].reviews
        IN  /\ \/ /\ Len(new) = Len(old)
                  /\ \A i \in 1..Len(old) : Unflagged(new[i]) = Unflagged(old[i])
               \/ /\ last'.op = "submitReview" /\ last'.err = ""
                  /\ last'.paperId = p
                  /\ last'.index = Len(old)
                  /\ Len(new) = Len(old) + 1
                  /\ \A i \in 1..Len(old) : new[i] = old[i]
                  /\ reviews'[reviewKey(p, Len(old))] = new[Len(new)]
            /\ (/\ last'.op = "submitReview" /\ last'.err = ""
                /\ \E s \in Reviewers, e \in ExtInputs, c \in Comments :
                       submitReview(s, p, e, c))
               => Len(new) = Len(old) + 1
C9_ReviewIndices == []C9_IndexInv /\ [][C9_IndexStep]_vars

\* two reviews stored, the second one just appended at index 1
C9_Witness ==
    /\ last.op = "submitReview" /\ last.err = "" /\ last.index = 1
    /\ Len(ReviewsOf(last.paperId)) = 2

\* C10: a successful aggregate stores, and announces in its event, the sum of
\* the score handles of all reviews the paper has at the call, added in
\* ascending index, whatever aggregate handle was stored before; aggregate
\* succeeds whenever the paper exists and has a review.
C10_AggregateIsAscendingSum ==
    [][\A p \in PaperIds :
          (last'.op = "aggregateScores" /\ aggregateScores(p)) =>
             /\ (paperExists(p) /\ Len(ReviewsOf(p)) > 0) => last'.err = ""
             /\ last'.err = "" =>
                  /\ papers'[p].aggregatedScore =
                         SumOfFirst(ReviewsOf(p), Len(ReviewsOf(p)))
                  /\ last'.event.handle = papers'[p].aggregatedScore]_vars

\* aggregate has just run over two reviews with different scores on a paper
\* that already carried an aggregate (it is published)
C10_Witness ==
    /\ last.op = "aggregateScores" /\ last.err = ""
    /\ LET rs == ReviewsOf(last.paperId) IN
          /\ Len(rs) = 2
          /\ Clear(rs[1].encryptedScore) # Clear(rs[2].encryptedScore)
          /\ papers[last.paperId].aggregatedScore = SumOfFirst(rs, 2)
          /\ papers[last.paperId].isPublished

\* the orders in which n reviews can be submitted
Orders(n) == {f \in [1..n -> 1..n] : \A i, j \in 1..n : f[i] = f[j] => i = j}

\* the reviews rs, submitted in the order f
Reordered(rs, f) == [i \in 1..Len(rs) |-> rs[f[i]]]

\* C11: when aggregate has just run on a paper, the clear sum behind the
\* aggregate handle equals the clear sum the aggregation loop produces for
\* every other order in which the same reviews could have been submitted.
C11_SumIndependentOfOrder ==
    (last.op = "aggregateScores" /\ last.err = "") =>
        LET rs == ReviewsOf(last.paperId) IN
        \A f \in Orders(Len(rs)) :
            Clear(foldScores(Reordered(rs, f), Len(rs)))
                = Clear(papers[last.paperId].aggregatedScore)

\* aggregate has just run over two reviews whose scores differ and whose sum
\* wraps around 2^32
C11_Witness ==
    /\ last.op = "aggregateScores" /\ last.err = ""
    /\ LET rs == ReviewsOf(last.paperId) IN
          /\ Len(rs) = 2
          /\ Clear(rs[1].encryptedScore) = U32(Half - 1, Half - 7)
          /\ Clear(rs[2].encryptedScore) = U32(0, 7)
          /\ Clear(papers[last.paperId].aggregatedScore) = U32(0, 0)

\* C12: aggregate fails with "Paper does not exist" on an id that was never
\* submitted and with "No reviews to aggregate" on a submitted paper without
\* reviews; in both cases the aggregate handle and the rest of the storage
\* are unchanged and no event is emitted.
C12_AggregatePreconditions ==
    [][\A p \in PaperIds :
          (/\ last'.op = "aggregateScores"
           /\ ~Submitted(p) \/ Len(ReviewsOf(p)) = 0
           /\ aggregateScores(p))
          => /\ last'.err = IF Submitted(p) THEN "No reviews to aggregate"
                            ELSE "Paper does not exist"
             /\ last'.event = NoEvent
             /\ papers'[p].aggregatedScore = papers[p].aggregatedScore
             /\ UNCHANGED <<storage, eventLog>>]_vars

\* C13: a verify call that presents the oracle's attestation of the paper's
\* aggregate handle, with the sum of the review scores as clear value,
\* succeeds.
C13_AggregateVerifiable ==
    [][\A p \in PaperIds, i \in 0..MaxReviews :
          LET agg == papers[p].aggregatedScore IN
          (/\ last'.op = "verifyReview"
           /\ isInitialized(agg)
           /\ agg = foldScores(ReviewsOf(p), Len(ReviewsOf(p)))
           /\ verifyReview(p, i, Clear(agg), OracleProof(agg)))
          => last'.err = ""]_vars

\* C14: for every stored review, a clear value is stored for its score
\* handle if and only if the review's verified flag is true.
C14_ClearValueIffVerified ==
    \A p \in PaperIds, i \in 1..MaxReviews :
        i <= Len(ReviewsOf(p)) =>
            (ReviewsOf(p)[i].isVerified
                <=> decryptedValue(ReviewsOf(p)[i]) # <<>>)

\* C15: a verify call naming a paper id the contract holds no paper for, or
\* a review index not below the paper's review count, fails with "Paper does
\* not exist" or "Invalid review index" and changes neither the storage nor
\* the event log.
C15_VerifyUnknownHandle ==
    [][\A p \in PaperIds, i \in 0..MaxReviews :
          (/\ last'.op = "verifyReview" /\ last'.index = i
           /\ PaperMissing(p) \/ i >= Len(ReviewsOf(p))
           /\ \E c \in ClearInputs, pr \in Proofs : verifyReview(p, i, c, pr))
          => /\ last'.err = IF PaperMissing(p) THEN "Paper does not exist"
                            ELSE "Invalid review index"
             /\ UNCHANGED <<storage, eventLog>>]_vars

\* a verify call naming the first index past the stored reviews has just
\* been refused
C15_Witness ==
    /\ last.op = "verifyReview"
    /\ last.err = "Invalid review index"
    /\ ~PaperMissing(last.paperId)
    /\ Len(ReviewsOf(last.paperId)) = 1
    /\ last.index = 1
    /\ ~ReviewsOf(last.paperId)[1].isVerified

\* C16: submitReview for a paper id the contract holds no paper for fails
\* with "Paper does not exist", appends no review to any paper, writes no
\* review slot, registers no handle and emits no event.
C16_ReviewNeedsPaper ==
    [][\A p \in PaperIds :
          (/\ last'.op = "submitReview"
           /\ PaperMissing(p)
           /\ \E s \in Reviewers, ext \in ExtInputs, cm \in Comments :
                 submitReview(s, p, ext, cm))
          => /\ last'.err = "Paper does not exist"
             /\ last'.event = NoEvent
             /\ \A q \in PaperIds : papers'[q].reviews = papers[q].reviews
             /\ UNCHANGED <<reviews, allowedThis, publiclyDecryptable,
                            eventLog>>]_vars

\* a review for an id that was never submitted has just been refused
C16_Witness ==
    /\ last.op = "submitReview"
    /\ last.err = "Paper does not exist"
    /\ ~Submitted(last.paperId)
    /\ Len(ReviewsOf(last.paperId)) = 0
    /\ <<"ReviewSubmitted", last.paperId>> \notin eventLog

\* the external inputs that carry no ciphertext
InvalidInputs == {NullExt}

\* C17 as stated: submitPaper and submitReview called with an invalid
\* ciphertext always fail with the invalid-ciphertext error and leave storage
\* and event log unchanged.
C17_Original ==
    [][\A p \in PaperIds, ext \in InvalidInputs :
          /\ (/\ last'.op = "submitPaper"
              /\ \E s \in Addresses, t \in Titles : submitPaper(s, p, t, ext))
             => /\ last'.err = "Invalid encrypted content"
                /\ UNCHANGED <<storage, eventLog>>
          /\ (/\ last'.op = "submitReview"
              /\ \E s \in Reviewers, cm \in Comments :
                    submitReview(s, p, ext, cm))
             => /\ last'.err = "Invalid encrypted score"
                /\ UNCHANGED <<storage, eventLog>>]_vars

\* C17: submitPaper and submitReview called with an invalid ciphertext fail,
\* store nothing, register no handle and emit no event; the error is the
\* invalid-ciphertext one ("Invalid encrypted content" / "Invalid encrypted
\* score") when the existence check that precedes the validity check passes,
\* and the error of that existence check otherwise.
C17_InvalidCiphertextRejected ==
    [][\A p \in PaperIds, ext \in InvalidInputs :
          /\ (/\ last'.op = "submitPaper"
              /\ \E s \in Addresses, t \in Titles : submitPaper(s, p, t, ext))
             => /\ last'.err = IF PaperMissing(p)
                               THEN "Invalid encrypted content"
                               ELSE "Paper already exists"
                /\ last'.event = NoEvent
                /\ UNCHANGED <<storage, eventLog>>
          /\ (/\ last'.op = "submitReview"
              /\ \E s \in Reviewers, cm \in Comments :
                    submitReview(s, p, ext, cm))
             => /\ last'.err = IF PaperMissing(p)
                               THEN "Paper does not exist"
                               ELSE "Invalid encrypted score"
                /\ last'.event = NoEvent
                /\ UNCHANGED <<storage, eventLog>>]_vars

\* a review carrying an invalid ciphertext has just been refused on a stored
\* paper, which keeps its one earlier review
C17_Witness ==
    /\ last.op = "submitReview"
    /\ last.err = "Invalid encrypted score"
    /\ ~PaperMissing(last.paperId)
    /\ Len(ReviewsOf(last.paperId)) = 1
    /\ Cardinality(allowedThis) = 2

\* C18: the aggregate handle of a paper changes only in a successful
\* aggregate call on that paper, so submitReview leaves it as the last
\* aggregate call wrote it (or absent); aggregate on a paper that already
\* has an aggregate succeeds and overwrites it with the sum of all the
\* reviews stored at that moment.
C18_AggregateOnlyOnRequest ==
    [][\A p \in PaperIds :
          /\ \/ papers'[p].aggregatedScore = papers[p].aggregatedScore
             \/ /\ last'.op = "aggregateScores"
                /\ last'.err = ""
                /\ last'.paperId = p
          /\ (/\ last'.op = "aggregateScores"
              /\ isInitialized(papers[p].aggregatedScore)
              /\ aggregateScores(p))
             => /\ last'.err = ""
                /\ papers'[p].aggregatedScore =
                       foldScores(ReviewsOf(p), Len(ReviewsOf(p)))]_vars

\* a second review has just been accepted on a paper aggregated when it had
\* one review: the aggregate is still the sum over the first review
C18_Witness ==
    /\ last.op = "submitReview" /\ last.err = "" /\ last.index = 1
    /\ LET p == last.paperId IN
          /\ Len(ReviewsOf(p)) = 2
          /\ papers[p].aggregatedScore = SumOfFirst(ReviewsOf(p), 1)
          /\ papers[p].aggregatedScore # SumOfFirst(ReviewsOf(p), 2)

\* C19: publish neither depends on nor changes verification: it succeeds
\* on every aggregated, unpublished paper whatever the verified flags of its
\* reviews are, and it leaves the stored reviews, flags included, unchanged.
C19_PublishIgnoresVerification ==
    [][\A p \in PaperIds :
          (last'.op = "publishPaper" /\ publishPaper(p))
          => /\ papers'[p].reviews = papers[p].reviews
             /\ reviews' = reviews
             /\ (<<"ScoreAggregated", p>> \in eventLog /\ ~papers[p].isPublished)
                => (last'.err = "" /\ papers'[p].isPublished)]_vars

\* a paper has just been published while none of its reviews is verified
C19_Witness ==
    /\ last.op = "publishPaper" /\ last.err = ""
    /\ LET p == last.paperId IN
          /\ papers[p].isPublished
          /\ Len(ReviewsOf(p)) = 2
          /\ \A i \in 1..Len(ReviewsOf(p)) : ~ReviewsOf(p)[i].isVerified
          /\ \A k \in ReviewKeys : ~reviews[k].isVerified

\* C20: in every step, every stored review is still stored at the same
\* index of the same paper with the same score handle, comments, reviewer
\* and submission date, and the copy in the reviews mapping is unchanged; its
\* verified flag changes only in a successful verify call naming that paper
\* and that index.
C20_ReviewImmutable ==
    [][\A p \in PaperIds, i \in 1..MaxReviews :
          i <= Len(ReviewsOf(p)) =>
             /\ i <= Len(papers'[p].reviews)
             /\ Unflagged(papers'[p].reviews[i]) = Unflagged(ReviewsOf(p)[i])
             /\ reviews'[reviewKey(p, i - 1)] = reviews[reviewKey(p, i - 1)]
             /\ \/ papers'[p].reviews[i].isVerified = ReviewsOf(p)[i].isVerified
                \/ /\ last'.op = "verifyReview" /\ last'.err = ""
                   /\ last'.paperId = p /\ last'.index = i - 1]_vars

\* the second of two reviews has just been verified; the first is untouched
C20_Witness ==
    /\ last.op = "verifyReview" /\ last.err = "" /\ last.index = 1
    /\ LET rs == ReviewsOf(last.paperId) IN
          /\ Len(rs) = 2
          /\ rs[2].isVerified
          /\ ~rs[1].isVerified
          /\ rs[1].encryptedScore # rs[2].encryptedScore

\* the event kind each operation emits
EventKinds == {"PaperSubmitted", "ReviewSubmitted", "ScoreAggregated",
               "PaperPublished"}
KindOf(op) ==
    CASE op = "submitPaper" -> "PaperSubmitted"
      [] op = "submitReview" -> "ReviewSubmitted"
      [] op = "aggregateScores" -> "ScoreAggregated"
      [] op = "publishPaper" -> "PaperPublished"
      [] OTHER -> "none"

\* C21: a successful submitPaper, submitReview, aggregate or publish emits
\* one event, of its own kind, carrying the paper id (and for aggregate the
\* handle just stored as the aggregate); a failed operation and verify emit
\* nothing; a step adds at most the one event of its transaction to the log,
\* and the log only ever holds the four kinds.
C21_EventsPerOperation ==
    [][/\ last'.err # "" => last'.event = NoEvent
       /\ last'.err = "" =>
             /\ last'.event.name = KindOf(last'.op)
             /\ KindOf(last'.op) = "none" => last'.event = NoEvent
             /\ KindOf(last'.op) # "none" =>
                   /\ last'.event.paperId = last'.paperId
                   /\ <<last'.event.name, last'.paperId>> \in eventLog'
             /\ last'.op = "aggregateScores" =>
                   last'.event.handle = papers'[last'.paperId].aggregatedScore
       /\ eventLog \subseteq eventLog'
       /\ (eventLog' \ eventLog) \subseteq
             {<<last'.event.name, last'.event.paperId>>}
       /\ \A e \in eventLog' : e[1] \in EventKinds]_vars

\* an aggregate over two reviews has just emitted its event, after the
\* events of the submissions
C21_Witness ==
    /\ last.op = "aggregateScores" /\ last.err = ""
    /\ last.event.name = "ScoreAggregated"
    /\ Len(ReviewsOf(last.paperId)) = 2
    /\ last.event.handle = SumOfFirst(ReviewsOf(last.paperId), 2)
    /\ eventLog = {<<"PaperSubmitted", last.paperId>>,
                   <<"ReviewSubmitted", last.paperId>>,
                   <<"ScoreAggregated", last.paperId>>}

\* C22: verify tests the verified flag before the proof: on a stored review
\* that is already verified, every verify call, whatever value and proof it
\* presents (a proof that does not bind included), fails with "Review
\* already verified", never with the proof error, and changes nothing.
C22_VerifiedCheckedBeforeProof ==
    [][\A p \in PaperIds, i \in 0..MaxReviews :
          (/\ last'.op = "verifyReview" /\ last'.index = i
           /\ ~PaperMissing(p)
           /\ i < Len(ReviewsOf(p))
           /\ ReviewsOf(p)[i + 1].isVerified
           /\ \E x \in VerifyInputs : verifyReview(p, i, x[1], x[2]))
          => /\ last'.err = "Review already verified"
             /\ UNCHANGED <<storage, eventLog>>]_vars

\* a verify on the verified first review has just been refused while the
\* second review, with another handle, is still unverified (so the proofs
\* presented include ones that do not bind the first handle)
C22_Witness ==
    /\ last.op = "verifyReview" /\ last.index = 0
    /\ last.err = "Review already verified"
    /\ LET rs == ReviewsOf(last.paperId) IN
          /\ Len(rs) = 2
          /\ rs[1].isVerified /\ ~rs[2].isVerified
          /\ rs[1].encryptedScore # rs[2].encryptedScore

\* C23: every handle stored by the contract (paper content, review score,
\* paper aggregate) is flagged publicly decryptable.
C23_HandlesDisclosable ==
    \A p \in PaperIds :
        /\ isInitialized(papers[p].encryptedContent)
              => papers[p].encryptedContent \in publiclyDecryptable
        /\ \A i \in 1..Len(ReviewsOf(p)) :
              ReviewsOf(p)[i].encryptedScore \in publiclyDecryptable
        /\ isInitialized(papers[p].aggregatedScore)
              => papers[p].aggregatedScore \in publiclyDecryptable

\* C24: a decryptData call that finds its record already verified returns
\* the decrypted value of the record's score, going from the read straight
\* to the end (no oracle request, no verify transaction); and only the
\* step in which the verify transaction is mined changes the contract's
\* storage.
C24_AlreadyVerifiedReturnsValue ==
    [][/\ \A c \in Callers, o \in OpIds :
             (/\ ui[c].ops[o].pc = "read"
              /\ ui'[c].ops[o].pc = "done"
              /\ ui'[c].transactionStatus.message =
                    "Score already verified on-chain")
             => /\ UNCHANGED <<storage, eventLog, last>>
                /\ ui'[c].ops[o].returned =
                      <<Clear(papers[ClientPaper].reviews[ui[c].ops[o].index + 1]
                                 .encryptedScore)>>
       /\ (\A c \in Callers, o \in OpIds :
               ~(Waiting(c, o, "tx") /\ ui'[c].ops[o].answer # NoAnswer))
             => UNCHANGED <<storage, eventLog>>]_vars

\* C25: once submitPaper has succeeded for an id, no later operation on that
\* id fails with "Paper does not exist".
C25_SubmittedPaperExists ==
    [][\A p \in PaperIds :
          (Submitted(p) /\ last'.paperId = p)
          => last'.err # "Paper does not exist"]_vars

\* C26: the copy of each stored review kept in the reviews mapping equals,
\* field by field, the entry of the paper's review array at that index.
C26_MappingCopyAgrees ==
    \A p \in PaperIds, i \in 1..MaxReviews :
        i <= Len(ReviewsOf(p)) =>
            reviews[reviewKey(p, i - 1)] = ReviewsOf(p)[i]

\* C27: in every step that ends a decryptData, createReview or loadData
\* call, on whatever exit path, the call's busy flag is false afterwards;
\* and whenever no call of a kind is in flight its flag is false
\* (isDecrypting, creatingReview; isRefreshing when nothing is in loadData).
C27_BusyFlagsCleared ==
    [][LET u == ui[UISession]
           v == ui'[UISession]
       IN
       /\ \A o \in OpIds :
             (u.ops[o].kind # "none" /\ v.ops[o].kind = "none") =>
                 CASE u.ops[o].kind = "decryptData" -> ~v.isDecrypting
                   [] u.ops[o].kind = "createReview" -> ~v.creatingReview
                   [] u.ops[o].kind = "loadData" -> ~v.isRefreshing
                   [] OTHER -> TRUE
       /\ (\A o \in OpIds : v.ops[o].kind # "decryptData")
             => ~v.isDecrypting
       /\ (\A o \in OpIds : v.ops[o].kind # "createReview")
             => ~v.creatingReview
       /\ (\A o \in OpIds : v.ops[o].pc \notin {"loadIds", "loadRecord"})
             => ~v.isRefreshing]_vars

\* a decryptData call has ended in its catch block and a createReview call
\* has ended after its reload: nothing is in flight and no flag is set
C27_Witness ==
    LET u == ui[UISession] IN
    /\ u.started = 2
    /\ \A o \in OpIds : u.ops[o].kind = "none"
    /\ u.transactionStatus.visible
    /\ u.transactionStatus.message = "Decryption failed: Relayer unavailable"
    /\ Len(papers[ClientPaper].reviews) = 2
    /\ Len(u.reviews) = 2
    /\ ~u.isDecrypting /\ ~u.creatingReview /\ ~u.isRefreshing

\* C28: a hide timer never hides the status of an operation started after
\* the operation that scheduled the timer.
C28_TimerHidesOwnStatus ==
    [][\A i \in DOMAIN ui[UISession].timers :
          (hideTimer(UISession, i) /\ ui[UISession].transactionStatus.visible)
          => ui[UISession].owner <= ui[UISession].timers[i].op]_vars

\* C29: the loaded statistics count the loaded records and, among them, those
\* whose isVerified flag is true.
C29_StatsCountVerified ==
    LET u == ui[UISession] IN
    /\ u.stats.total = Len(u.reviews)
    /\ u.stats.verified =
           Cardinality({k \in DOMAIN u.reviews :
                           isTrue(u.reviews[k].isVerified)})
    /\ u.stats.verified <= u.stats.total

====
